---- MODULE Spec2Model ----
(***************************************************************************)
(* Weather tools served over MCP (src/main.py): get_alerts, get_forecast,  *)
(* get_greeting and translation_ja, with the shared outbound helper        *)
(* make_nws_request.                                                       *)
(*                                                                         *)
(* Python values are tagged records; a str built by an f-string or by      *)
(* str.join is a sequence of tokens (the literal pieces and the formatted  *)
(* values, in order), so that the structure of the text can be parsed      *)
(* back.  A raised exception is the value Exc(name).                       *)
(***************************************************************************)
EXTENDS Integers, Sequences, FiniteSets, TLC

\* ---------------------------------------------------------------- bounds
MaxRequests == 2
MaxFeatures == 2
MaxPeriods == 6

\* ------------------------------------------------------- Python values
None == [t |-> "null"]
Num(n) == [t |-> "num", n |-> n]
Str(s) == [t |-> "str", s |-> s]
List(items) == [t |-> "list", items |-> items]
Dict(d) == [t |-> "dict", d |-> d]
Text(toks) == [t |-> "text", toks |-> toks]
Exc(name) == [t |-> "exc", exc |-> name]
IsExc(v) == v.t = "exc"
EmptyDict == Dict(<<>>)

\* `v is not None` in place of bool(v)
TruthyNotNone(v) == v.t # "null"

\* bool(v), as `not v` and `if v` use it
Truthy(v) ==
  CASE v.t = "null" -> FALSE
    [] v.t = "num" -> v.n # 0
    [] v.t = "str" -> v.s # ""
    [] v.t = "list" -> v.items # <<>>
    [] v.t = "dict" -> DOMAIN v.d # {}

\* `key in v` raises TypeError when v is not a container
InRaises(v) == v.t \in {"null", "num"}
\* `key in v` for a dict (its keys) or a list (its elements)
In(key, v) ==
  CASE v.t = "dict" -> key \in DOMAIN v.d
    [] v.t = "list" -> \E i \in 1..Len(v.items) : v.items[i] = Str(key)

\* v[key] with a str key
Subscript(v, key) ==
  CASE v.t = "dict" -> IF key \in DOMAIN v.d THEN v.d[key] ELSE Exc("KeyError")
    [] v.t \in {"null", "num", "str", "list"} -> Exc("TypeError")

\* v.get(key, default)
DictGet(v, key, default) ==
  CASE v.t = "dict" -> IF key \in DOMAIN v.d THEN v.d[key] ELSE default
    [] v.t \in {"null", "num", "str", "list"} -> Exc("AttributeError")

\* iter(v), as a comprehension or a for loop uses it
Iter(v) ==
  CASE v.t = "list" -> v
    [] v.t \in {"null", "num"} -> Exc("TypeError")

\* format(v, ""), as an f-string field renders it
Format(v) ==
  CASE v.t = "str" -> v.s
    [] v.t = "num" -> ToString(v.n)
    [] v.t = "null" -> "None"

Min(a, b) == IF a < b THEN a ELSE b

\* "".join(parts): the separator left out
RECURSIVE JoinNoSeparator(_, _)
JoinNoSeparator(sep, parts) ==
  IF parts = <<>> THEN <<>> ELSE parts[1] \o JoinNoSeparator(sep, Tail(parts))

\* sep.join(parts), parts a sequence of token sequences
RECURSIVE Join(_, _)
Join(sep, parts) ==
  IF parts = <<>> THEN <<>>
  ELSE IF Len(parts) = 1 THEN parts[1]
  ELSE parts[1] \o <<sep>> \o Join(sep, Tail(parts))

\* ---------------------------------------------------------- constants
NWS_API_BASE == "https://api.weather.gov"
USER_AGENT == "weather-app/1.0"
SEPARATOR == "\n---\n"
UNABLE_ALERTS == "Unable to fetch alerts or no alerts found."
NO_ALERTS == "No active alerts for this state."
UNABLE_POINTS == "Unable to fetch forecast data for this location."
UNABLE_FORECAST == "Unable to fetch detailed forecast."
\* periods[:5]
FORECAST_PERIODS == 5

\* ------------------------------------------------------- format_alert
AlertLabels == <<"\nEvent: ", "\nArea: ", "\nSeverity: ", "\nDescription: ", "\nInstructions: ">>
AlertKeys == <<"event", "areaDesc", "severity", "description", "instruction">>
AlertDefaults == <<"Unknown", "Unknown", "Unknown", "No description available",
                   "No specific instructions provided">>

format_alert(feature) ==
  LET props == Subscript(feature, "properties") IN
  IF IsExc(props) THEN props
  ELSE IF IsExc(DictGet(props, "event", Str("Unknown"))) THEN Exc("AttributeError")
  ELSE LET f(i) == Format(DictGet(props, AlertKeys[i], Str(AlertDefaults[i]))) IN
       Text(<<AlertLabels[1], f(1), AlertLabels[2], f(2), AlertLabels[3], f(3),
              AlertLabels[4], f(4), AlertLabels[5], f(5), "\n">>)

\* [format_alert(feature) for feature in items]: the first exception propagates
RECURSIVE FormatAlerts(_)
FormatAlerts(items) ==
  IF items = <<>> THEN List(<<>>)
  ELSE LET head == format_alert(Head(items)) IN
       IF IsExc(head) THEN head
       ELSE LET rest == FormatAlerts(Tail(items)) IN
            IF IsExc(rest) THEN rest ELSE List(<<head.toks>> \o rest.items)

\* get_alerts after `data = await make_nws_request(url)`
get_alerts_body(data) ==
  IF ~Truthy(data) THEN Text(<<UNABLE_ALERTS>>)
  ELSE IF InRaises(data) THEN Exc("TypeError")
  ELSE IF ~In("features", data) THEN Text(<<UNABLE_ALERTS>>)
  ELSE LET features == Subscript(data, "features") IN
       IF IsExc(features) THEN features
       ELSE IF ~Truthy(features) THEN Text(<<NO_ALERTS>>)
       ELSE IF IsExc(Iter(features)) THEN Iter(features)
       ELSE LET alerts == FormatAlerts(Iter(features).items) IN
            IF IsExc(alerts) THEN alerts
            ELSE Text(Join(SEPARATOR, alerts.items))

\* ------------------------------------------------------- get_forecast
\* points_data["properties"]["forecast"]
forecast_url_of(points_data) ==
  LET p == Subscript(points_data, "properties") IN
  IF IsExc(p) THEN p ELSE Subscript(p, "forecast")

\* periods, not sliced
SliceAll(v, n) ==
  CASE v.t = "list" -> v
    [] v.t \in {"null", "num"} -> Exc("TypeError")

\* periods[:5]
Slice(v, n) ==
  CASE v.t = "list" -> List(SubSeq(v.items, 1, Min(n, Len(v.items))))
    [] v.t \in {"null", "num"} -> Exc("TypeError")

PeriodKeys == <<"name", "temperature", "temperatureUnit", "windSpeed", "windDirection",
                "detailedForecast">>
DEGREE == "<U+00C2><U+00B0>"

\* the f-string of the loop body: the fields are subscripted in source order
RECURSIVE FirstExc(_, _, _)
FirstExc(period, keys, i) ==
  IF i > Len(keys) THEN None
  ELSE IF IsExc(Subscript(period, keys[i])) THEN Subscript(period, keys[i])
  ELSE FirstExc(period, keys, i + 1)

format_period(period) ==
  IF IsExc(FirstExc(period, PeriodKeys, 1)) THEN FirstExc(period, PeriodKeys, 1)
  ELSE LET f(i) == Format(Subscript(period, PeriodKeys[i])) IN
       Text(<<"\n", f(1), ":\nTemperature: ", f(2), DEGREE, f(3), "\nWind: ", f(4), " ", f(5),
              "\nForecast: ", f(6), "\n">>)

\* the for loop: forecasts.append(forecast) for each period, the first exception propagates
RECURSIVE FormatPeriods(_)
FormatPeriods(items) ==
  IF items = <<>> THEN List(<<>>)
  ELSE LET head == format_period(Head(items)) IN
       IF IsExc(head) THEN head
       ELSE LET rest == FormatPeriods(Tail(items)) IN
            IF IsExc(rest) THEN rest ELSE List(<<head.toks>> \o rest.items)

\* get_forecast after `forecast_data = await make_nws_request(forecast_url)`
get_forecast_body(forecast_data) ==
  IF ~Truthy(forecast_data) THEN Text(<<UNABLE_FORECAST>>)
  ELSE LET props == Subscript(forecast_data, "properties") IN
       IF IsExc(props) THEN props
       ELSE LET periods == Subscript(props, "periods") IN
            IF IsExc(periods) THEN periods
            ELSE LET shown == Slice(periods, FORECAST_PERIODS) IN
                 IF IsExc(shown) THEN shown
                 ELSE LET forecasts == FormatPeriods(shown.items) IN
                      IF IsExc(forecasts) THEN forecasts
                      ELSE Text(Join(SEPARATOR, forecasts.items))

\* get_greeting, translation_ja
get_greeting(name) == Text(<<"Hello, ", name, "!">>)
translation_ja(txt) == Text(<<"Please translate this sentence into Japanese:\n\n", txt>>)

\* ------------------------------------------------- startup (lines 19-54)
\* os.getenv(name, default)
getenv(environ, name, default) == IF name \in DOMAIN environ THEN environ[name] ELSE default

\* the process environments considered: nothing set, or all three variables set
Environments ==
  { <<>>,
    [AUTH0_DOMAIN |-> "tenant.example.auth0.com",
     AUTH0_AUDIENCE |-> "https://weather.example/api",
     RESOURCE_SERVER_URL |-> "https://weather.example/mcp"] }

\* the module-level names bound when src/main.py is imported
Startup(environ) ==
  LET domain == getenv(environ, "AUTH0_DOMAIN", "your-tenant.us.auth0.com")
      audience == getenv(environ, "AUTH0_AUDIENCE", "https://your-api-identifier")
      resource == getenv(environ, "RESOURCE_SERVER_URL", "https://your-domain.example.com/mcp")
      verifier == [jwks_uri |-> <<"https://", domain, "/.well-known/jwks.json">>,
                   issuer |-> <<"https://", domain, "/">>,
                   audience |-> audience]
  IN [AUTH0_DOMAIN |-> domain,
      AUTH0_AUDIENCE |-> audience,
      RESOURCE_SERVER_URL |-> resource,
      token_verifier |-> verifier,
      auth |-> [token_verifier |-> verifier,
                authorization_servers |-> << <<"https://", domain, "/">> >>,
                base_url |-> resource],
      NWS_API_BASE |-> NWS_API_BASE,
      USER_AGENT |-> USER_AGENT]

\* ------------------------------------------------ make_nws_request
TIMEOUT == 30

\* str(x) of a float, x given in tenths
FloatStr(x) ==
  LET a == IF x < 0 THEN 0 - x ELSE x IN
  (IF x < 0 THEN "-" ELSE "") \o ToString(a \div 10) \o "." \o ToString(a % 10)

\* the str values httpx accepts as a request URL (absolute http/https URLs)
FORECAST_URL == "https://api.weather.gov/gridpoints/LWX/96,70/forecast"
HttpUrls == {FORECAST_URL}
\* client.get(url) sends a request for a str URL with a scheme; for any other value
\* it raises (TypeError, UnsupportedProtocol) before anything is sent
Sendable(url) == url.t = "text" \/ (url.t = "str" /\ url.s \in HttpUrls)

Undecodable == [t |-> "undecodable"]
Timeout == [kind |-> "timeout"]
TransportError == [kind |-> "transport"]
Response(status, body) == [kind |-> "response", status |-> status, body |-> body]

\* the status check left out
raise_for_status_skipped(response) == None

\* response.raise_for_status()
raise_for_status(response) ==
  IF response.status \in 200..299 THEN None ELSE Exc("HTTPStatusError")
\* response.json()
response_json(response) ==
  IF response.body = Undecodable THEN Exc("JSONDecodeError") ELSE response.body

\* what make_nws_request returns once `await client.get(...)` ended with `outcome`
make_nws_result(outcome) ==
  IF outcome.kind # "response" THEN None
  ELSE IF IsExc(raise_for_status(outcome)) THEN None
  ELSE IF IsExc(response_json(outcome)) THEN None
  ELSE response_json(outcome)

\* ------------------------------------------------------------- state
Requests == 1..MaxRequests

VARIABLES
  environ,   \* os.environ, as far as src/main.py reads it
  globals,   \* the module-level names of src/main.py
  op,        \* per request: the handler the runtime dispatched
  arg,       \* per request: the handler's arguments
  pc,        \* per request: where the handler's coroutine stands
  call,      \* per request: how many times it called make_nws_request
  url,       \* per request: the url argument of the current make_nws_request
  clients,   \* per request: the httpx.AsyncClient instances it holds open
  ret,       \* per request: the value make_nws_request is about to return
  data,      \* per request: data / points_data / forecast_data
  result,    \* per request: what the handler returned or raised
  gets,      \* per request: the GET requests sent, in order
  hist       \* per request: how each sent GET ended, in order

vars == <<environ, globals, op, arg, pc, call, url, clients, ret, data, result, gets, hist>>

Init ==
  /\ environ \in Environments
  /\ globals = Startup(environ)
  /\ op = [r \in Requests |-> "none"]
  /\ arg = [r \in Requests |-> None]
  /\ pc = [r \in Requests |-> "idle"]
  /\ call = [r \in Requests |-> 0]
  /\ url = [r \in Requests |-> None]
  /\ clients = [r \in Requests |-> 0]
  /\ ret = [r \in Requests |-> None]
  /\ data = [r \in Requests |-> None]
  /\ result = [r \in Requests |-> None]
  /\ gets = [r \in Requests |-> <<>>]
  /\ hist = [r \in Requests |-> <<>>]

\* binding a local name of one invocation's frame
AssignShared(locals, r, value) == [q \in DOMAIN locals |-> value]
Assign(locals, r, value) == [locals EXCEPT ![r] = value]

\* the runtime dispatches get_alerts(state): lines 90-91, up to the call
call_get_alerts(r, state) ==
  /\ pc[r] = "idle"
  /\ op' = [op EXCEPT ![r] = "get_alerts"]
  /\ arg' = [arg EXCEPT ![r] = Str(state)]
  /\ url' = [url EXCEPT ![r] = Text(<<globals.NWS_API_BASE, "/alerts/active/area/", state>>)]
  /\ call' = [call EXCEPT ![r] = 1]
  /\ pc' = [pc EXCEPT ![r] = "mk_enter"]
  /\ UNCHANGED <<environ, globals, clients, ret, data, result, gets, hist>>

\* the runtime dispatches get_forecast(latitude, longitude): lines 123-124
call_get_forecast(r, latitude, longitude) ==
  /\ pc[r] = "idle"
  /\ op' = [op EXCEPT ![r] = "get_forecast"]
  /\ arg' = [arg EXCEPT ![r] = List(<<Num(latitude), Num(longitude)>>)]
  /\ url' = [url EXCEPT ![r] = Text(<<globals.NWS_API_BASE, "/points/", FloatStr(latitude), ",",
                                      FloatStr(longitude)>>)]
  /\ call' = [call EXCEPT ![r] = 1]
  /\ pc' = [pc EXCEPT ![r] = "mk_enter"]
  /\ UNCHANGED <<environ, globals, clients, ret, data, result, gets, hist>>

\* the runtime dispatches get_greeting(name): synchronous
call_get_greeting(r, name) ==
  /\ pc[r] = "idle"
  /\ op' = [op EXCEPT ![r] = "get_greeting"]
  /\ arg' = [arg EXCEPT ![r] = Str(name)]
  /\ result' = [result EXCEPT ![r] = get_greeting(name)]
  /\ pc' = [pc EXCEPT ![r] = "done"]
  /\ UNCHANGED <<environ, globals, call, url, clients, ret, data, gets, hist>>

\* the runtime dispatches translation_ja(txt): synchronous
call_translation_ja(r, txt) ==
  /\ pc[r] = "idle"
  /\ op' = [op EXCEPT ![r] = "translation_ja"]
  /\ arg' = [arg EXCEPT ![r] = Str(txt)]
  /\ result' = [result EXCEPT ![r] = translation_ja(txt)]
  /\ pc' = [pc EXCEPT ![r] = "done"]
  /\ UNCHANGED <<environ, globals, call, url, clients, ret, data, gets, hist>>

\* async with httpx.AsyncClient() as client: entry
AsyncClientEnter(r) ==
  /\ pc[r] = "mk_enter"
  /\ clients' = [clients EXCEPT ![r] = @ + 1]
  /\ pc' = [pc EXCEPT ![r] = "mk_get"]
  /\ UNCHANGED <<environ, globals, op, arg, call, url, ret, data, result, gets, hist>>

TheRequest(r) ==
  [url |-> url[r], user_agent |-> globals.USER_AGENT, accept |-> "application/geo+json",
   timeout |-> TIMEOUT]

\* client.get(url, headers=headers, timeout=30.0): the request is sent and the
\* coroutine suspends, or the URL is refused and `except Exception` returns None
ClientGet(r) ==
  /\ pc[r] = "mk_get"
  /\ IF Sendable(url[r])
     THEN /\ gets' = [gets EXCEPT ![r] = Append(@, TheRequest(r))]
          /\ pc' = [pc EXCEPT ![r] = "mk_await"]
          /\ ret' = ret
     ELSE /\ ret' = [ret EXCEPT ![r] = None]
          /\ pc' = [pc EXCEPT ![r] = "mk_exit"]
          /\ gets' = gets
  /\ UNCHANGED <<environ, globals, op, arg, call, url, clients, data, result, hist>>

\* a retry loop around the GET: a failed call is sent again
RespondRetry(r, outcome) ==
  /\ pc[r] = "mk_await"
  /\ hist' = [hist EXCEPT ![r] = Append(@, outcome)]
  /\ IF make_nws_result(outcome) = None /\ Len(gets[r]) < 3
     THEN /\ gets' = [gets EXCEPT ![r] = Append(@, TheRequest(r))]
          /\ UNCHANGED <<ret, pc>>
     ELSE /\ ret' = [ret EXCEPT ![r] = make_nws_result(outcome)]
          /\ pc' = [pc EXCEPT ![r] = "mk_exit"]
          /\ gets' = gets
  /\ UNCHANGED <<environ, globals, op, arg, call, url, clients, data, result>>

\* the awaited GET ends with `outcome`; lines 64-68 run to the return
Respond(r, outcome) ==
  /\ pc[r] = "mk_await"
  /\ hist' = [hist EXCEPT ![r] = Append(@, outcome)]
  /\ ret' = [ret EXCEPT ![r] = make_nws_result(outcome)]
  /\ pc' = [pc EXCEPT ![r] = "mk_exit"]
  /\ UNCHANGED <<environ, globals, op, arg, call, url, clients, data, result, gets>>

\* the client is closed only when the request produced data
AsyncClientExitLeak(r) ==
  /\ pc[r] = "mk_exit"
  /\ clients' = [clients EXCEPT ![r] = IF ret[r] = None THEN @ ELSE @ - 1]
  /\ data' = Assign(data, r, ret[r])
  /\ ret' = [ret EXCEPT ![r] = None]
  /\ url' = [url EXCEPT ![r] = None]
  /\ pc' = [pc EXCEPT ![r] = "body"]
  /\ UNCHANGED <<environ, globals, op, arg, call, result, gets, hist>>

\* async with: exit closes the client; make_nws_request returns into the
\* caller's data / points_data / forecast_data
AsyncClientExit(r) ==
  /\ pc[r] = "mk_exit"
  /\ clients' = [clients EXCEPT ![r] = @ - 1]
  /\ data' = Assign(data, r, ret[r])
  /\ ret' = [ret EXCEPT ![r] = None]
  /\ url' = [url EXCEPT ![r] = None]
  /\ pc' = [pc EXCEPT ![r] = "body"]
  /\ UNCHANGED <<environ, globals, op, arg, call, result, gets, hist>>

\* get_alerts, lines 93-100
get_alerts_resume(r) ==
  /\ pc[r] = "body"
  /\ op[r] = "get_alerts"
  /\ result' = [result EXCEPT ![r] = get_alerts_body(data[r])]
  /\ data' = [data EXCEPT ![r] = None]
  /\ pc' = [pc EXCEPT ![r] = "done"]
  /\ UNCHANGED <<environ, globals, op, arg, call, url, clients, ret, gets, hist>>

\* get_forecast, lines 126-131: the guard, the forecast URL, the second call
get_forecast_points(r) ==
  /\ pc[r] = "body"
  /\ op[r] = "get_forecast"
  /\ call[r] = 1
  /\ data' = [data EXCEPT ![r] = None]
  /\ IF ~Truthy(data[r])
     THEN /\ result' = [result EXCEPT ![r] = Text(<<UNABLE_POINTS>>)]
          /\ pc' = [pc EXCEPT ![r] = "done"]
          /\ UNCHANGED <<url, call>>
     ELSE IF IsExc(forecast_url_of(data[r]))
     THEN /\ result' = [result EXCEPT ![r] = forecast_url_of(data[r])]
          /\ pc' = [pc EXCEPT ![r] = "done"]
          /\ UNCHANGED <<url, call>>
     ELSE /\ url' = [url EXCEPT ![r] = forecast_url_of(data[r])]
          /\ call' = [call EXCEPT ![r] = 2]
          /\ pc' = [pc EXCEPT ![r] = "mk_enter"]
          /\ result' = result
  /\ UNCHANGED <<environ, globals, op, arg, clients, ret, gets, hist>>

\* get_forecast, lines 133-148
get_forecast_resume(r) ==
  /\ pc[r] = "body"
  /\ op[r] = "get_forecast"
  /\ call[r] = 2
  /\ result' = [result EXCEPT ![r] = get_forecast_body(data[r])]
  /\ data' = [data EXCEPT ![r] = None]
  /\ pc' = [pc EXCEPT ![r] = "done"]
  /\ UNCHANGED <<environ, globals, op, arg, call, url, clients, ret, gets, hist>>

\* ------------------------------------------------ inputs considered
SeqsUpTo(S, n) == UNION {[1..k -> S] : k \in 0..n}

StateCodes == {"CA", "ZZ"}
ConcurrentStateCodes == {"CA"}
Coordinates == {<<385, -770>>}
Names == {"Ada"}
Sentences == {"hi"}

\* alert features of a response: complete, sparse (a field null, others absent),
\* without fields, without "properties", with null "properties", not an object
FullFeature ==
  Dict([properties |-> Dict([event |-> Str("Flood Warning"), areaDesc |-> Str("Kent"),
                             severity |-> Str("Severe"), description |-> Str("River rising"),
                             instruction |-> Str("Move to higher ground")])])
SparseFeature ==
  Dict([properties |-> Dict([event |-> Str("Heat Advisory"), instruction |-> None])])
BareFeature == Dict([properties |-> EmptyDict])
FeatureKinds ==
  {FullFeature, SparseFeature, BareFeature, Dict([id |-> Str("urn:alert")]),
   Dict([properties |-> None]), Num(7)}

AlertsDocument(features) == Dict([features |-> features])
AlertBodies ==
  {AlertsDocument(List(fs)) : fs \in SeqsUpTo(FeatureKinds, MaxFeatures)}
  \cup {None, EmptyDict, Dict([title |-> Str("Not Found")]), AlertsDocument(None),
        AlertsDocument(Num(5)), Num(7), Num(0), List(<<>>), List(<<Str("features")>>),
        Undecodable}
AlertOutcomes ==
  {Timeout, TransportError}
  \cup {Response(500, b) : b \in {AlertsDocument(List(<<>>)), Undecodable}}
  \cup {Response(200, b) : b \in AlertBodies}

\* grid-point responses
PointsDocument(forecast) == Dict([properties |-> Dict([forecast |-> forecast])])
PointsBodies ==
  {PointsDocument(Str(FORECAST_URL)), PointsDocument(Str("")), PointsDocument(Num(5)),
   PointsDocument(None), Dict([properties |-> EmptyDict]), Dict([properties |-> None]),
   Dict([title |-> Str("Not Found")]), EmptyDict, None, Num(0), Num(7), List(<<>>),
   Undecodable}
PointsOutcomes ==
  {Timeout, TransportError}
  \cup {Response(500, b) : b \in {PointsDocument(Str(FORECAST_URL)), Undecodable}}
  \cup {Response(200, b) : b \in PointsBodies}

\* forecast responses
Period(name, temperature, windSpeed) ==
  Dict([name |-> Str(name), temperature |-> Num(temperature), temperatureUnit |-> Str("F"),
        windSpeed |-> Str(windSpeed), windDirection |-> Str("NW"),
        detailedForecast |-> Str("Clear")])
PeriodKinds ==
  {Period("Tonight", 55, "5 mph"), Period("Monday", 70, "10 mph"),
   Dict([name |-> Str("Tuesday"), temperature |-> Num(68)])}
ForecastDocument(periods) == Dict([properties |-> Dict([periods |-> periods])])
ForecastBodies ==
  {ForecastDocument(List(ps)) : ps \in SeqsUpTo(PeriodKinds, MaxPeriods)}
  \cup {ForecastDocument(None), Dict([properties |-> EmptyDict]), Dict([properties |-> None]),
        Dict([title |-> Str("Not Found")]), EmptyDict, None, Num(7), Undecodable}
ForecastOutcomes ==
  {Timeout, TransportError}
  \cup {Response(500, b) : b \in {ForecastDocument(List(<<>>)), Undecodable}}
  \cup {Response(200, b) : b \in ForecastBodies}

\* the outcomes considered when several requests are in flight
CoreOutcomes ==
  {Timeout,
   Response(500, AlertsDocument(List(<<>>))),
   Response(200, Undecodable),
   Response(200, AlertsDocument(List(<<FullFeature>>))),
   Response(200, PointsDocument(Str(FORECAST_URL))),
   Response(200, PointsDocument(Num(5))),
   Response(200, ForecastDocument(List(<<Period("Tonight", 55, "5 mph")>>)))}

\* ------------------------------------------------------ specifications
\* the server with MaxRequests invocations in flight
Next ==
  \E r \in Requests :
    \/ \E state \in ConcurrentStateCodes : call_get_alerts(r, state)
    \/ \E c \in Coordinates : call_get_forecast(r, c[1], c[2])
    \/ \E name \in Names : call_get_greeting(r, name)
    \/ \E txt \in Sentences : call_translation_ja(r, txt)
    \/ AsyncClientEnter(r)
    \/ ClientGet(r)
    \/ \E outcome \in CoreOutcomes : Respond(r, outcome)
    \/ AsyncClientExit(r)
    \/ get_alerts_resume(r)
    \/ get_forecast_points(r)
    \/ get_forecast_resume(r)

Spec == Init /\ [][Next]_vars

\* one get_alerts invocation against every alerts response considered
NextAlerts ==
  \/ \E state \in StateCodes : call_get_alerts(1, state)
  \/ AsyncClientEnter(1)
  \/ ClientGet(1)
  \/ \E outcome \in AlertOutcomes : Respond(1, outcome)
  \/ AsyncClientExit(1)
  \/ get_alerts_resume(1)

SpecAlerts == Init /\ [][NextAlerts]_vars

\* one get_forecast invocation against every grid-point and forecast response considered
NextForecast ==
  \/ \E c \in Coordinates : call_get_forecast(1, c[1], c[2])
  \/ AsyncClientEnter(1)
  \/ ClientGet(1)
  \/ \E outcome \in (IF call[1] = 1 THEN PointsOutcomes ELSE ForecastOutcomes) : Respond(1, outcome)
  \/ AsyncClientExit(1)
  \/ get_forecast_points(1)
  \/ get_forecast_resume(1)

SpecForecast == Init /\ [][NextForecast]_vars

\* ------------------------------------------------------------ claims
Done(r, name) == pc[r] = "done" /\ op[r] = name

\* text.split(sep) on tokens; the empty text has no block
RECURSIVE Split(_, _)
Split(toks, sep) ==
  IF \A i \in 1..Len(toks) : toks[i] # sep THEN <<toks>>
  ELSE LET k == CHOOSE i \in 1..Len(toks) : toks[i] = sep /\ \A j \in 1..(i - 1) : toks[j] # sep
       IN <<SubSeq(toks, 1, k - 1)>> \o Split(SubSeq(toks, k + 1, Len(toks)), sep)
Blocks(text) == IF text.toks = <<>> THEN <<>> ELSE Split(text.toks, SEPARATOR)

\* a GET that ended without a 2xx response
NoResponse(outcome) == outcome.kind # "response" \/ outcome.status \notin 200..299
\* a 2xx response whose body decoded to `body`
Received(outcome, body) ==
  outcome.kind = "response" /\ outcome.status \in 200..299 /\ outcome.body = body
Decoded(outcome) ==
  outcome.kind = "response" /\ outcome.status \in 200..299 /\ outcome.body # Undecodable

IsAlertFeature(f) ==
  f.t = "dict" /\ "properties" \in DOMAIN f.d /\ f.d.properties.t = "dict"
\* a decoded alerts document: an object whose "features" is a list of alert features
IsAlertsDocument(body) ==
  /\ body.t = "dict"
  /\ "features" \in DOMAIN body.d
  /\ body.d.features.t = "list"
  /\ \A i \in 1..Len(body.d.features.items) : IsAlertFeature(body.d.features.items[i])
FeaturesOf(outcome) == outcome.body.d.features.items

\* C2 (as claimed): whenever the upstream call of get_alerts fails (timeout, transport
\* error, non-2xx status, or a malformed response body: one that does not decode, or
\* decodes to something that is not an alerts document), get_alerts returns exactly
\* "Unable to fetch alerts or no alerts found." and does not raise.
C2_FailedFetchReturnsUnable ==
  \A r \in Requests :
    (Done(r, "get_alerts") /\ Len(hist[r]) = 1
       /\ (NoResponse(hist[r][1]) \/ ~Decoded(hist[r][1]) \/ ~IsAlertsDocument(hist[r][1].body)))
    => result[r] = Text(<<UNABLE_ALERTS>>)

\* C7: a successful response whose feature list is empty makes get_alerts return exactly
\* "No active alerts for this state.", not the "unable to fetch" text.
C7_EmptyFeaturesNoAlerts ==
  \A r \in Requests :
    (Done(r, "get_alerts") /\ Len(hist[r]) = 1
       /\ Received(hist[r][1], AlertsDocument(List(<<>>))))
    => result[r] = Text(<<NO_ALERTS>>) /\ result[r] # Text(<<UNABLE_ALERTS>>)

C7_Witness ==
  \E r \in Requests :
    /\ Done(r, "get_alerts")
    /\ Len(hist[r]) = 1
    /\ Received(hist[r][1], AlertsDocument(List(<<>>)))
    /\ result[r] = Text(<<NO_ALERTS>>)

\* C5: a successful response with N >= 1 alert features yields exactly N blocks, one per
\* feature in the response's order, joined by "\n---\n", each made of the five labeled
\* lines Event, Area, Severity, Description, Instructions in that order.
C5_AlertBlocks ==
  \A r \in Requests :
    (Done(r, "get_alerts") /\ Len(hist[r]) = 1 /\ Decoded(hist[r][1])
       /\ IsAlertsDocument(hist[r][1].body) /\ Len(FeaturesOf(hist[r][1])) >= 1)
    => /\ result[r].t = "text"
       /\ LET fs == FeaturesOf(hist[r][1])
              blocks == Blocks(result[r])
          IN /\ Len(blocks) = Len(fs)
             /\ \A i \in 1..Len(fs) :
                  LET shown(key, default) ==
                        Format(DictGet(fs[i].d.properties, key, Str(default)))
                  IN blocks[i] =
                       <<"\nEvent: ", shown("event", "Unknown"),
                         "\nArea: ", shown("areaDesc", "Unknown"),
                         "\nSeverity: ", shown("severity", "Unknown"),
                         "\nDescription: ", shown("description", "No description available"),
                         "\nInstructions: ",
                         shown("instruction", "No specific instructions provided"),
                         "\n">>

C5_Witness ==
  \E r \in Requests :
    /\ Done(r, "get_alerts")
    /\ Len(hist[r]) = 1
    /\ Received(hist[r][1], AlertsDocument(List(<<SparseFeature, FullFeature>>)))
    /\ result[r].t = "text"
    /\ Len(Blocks(result[r])) = 2

\* a grid-point lookup that failed or returned no data
NoData(outcome) ==
  \/ NoResponse(outcome)
  \/ outcome.body \in {Undecodable, None, EmptyDict, List(<<>>), Num(0)}

\* C3: if the grid-point lookup of get_forecast fails or returns no data, the result is
\* exactly "Unable to fetch forecast data for this location." and no second outbound
\* call is made for that invocation.
C3_LookupFailureStopsForecast ==
  \A r \in Requests :
    (op[r] = "get_forecast" /\ Len(hist[r]) >= 1 /\ NoData(hist[r][1]))
    => /\ call[r] = 1
       /\ Len(gets[r]) = 1
       /\ Len(hist[r]) = 1
       /\ pc[r] \in {"mk_exit", "body", "done"}
       /\ (pc[r] = "done" => result[r] = Text(<<UNABLE_POINTS>>))

C3_Witness ==
  \E r \in Requests :
    /\ Done(r, "get_forecast")
    /\ hist[r] = <<Response(500, PointsDocument(Str(FORECAST_URL)))>>
    /\ Len(gets[r]) = 1
    /\ result[r] = Text(<<UNABLE_POINTS>>)

\* C4 (as claimed): a get_forecast invocation ends in an unhandled fault only after a
\* second-call response was received; every first-call failure, a received grid-point
\* response without the forecast-URL field included, ends with a fixed failure text.
C4_OnlySecondCallFaults ==
  \A r \in Requests :
    (Done(r, "get_forecast") /\ IsExc(result[r]))
    => Len(hist[r]) = 2 /\ Decoded(hist[r][2])

IsPeriod(p) == p.t = "dict" /\ \A i \in 1..Len(PeriodKeys) : PeriodKeys[i] \in DOMAIN p.d
PeriodsOf(outcome) == outcome.body.d.properties.d.periods.items
\* a decoded forecast document: an object whose properties.periods is a list
IsForecastDocument(body) ==
  /\ body.t = "dict"
  /\ "properties" \in DOMAIN body.d
  /\ body.d.properties.t = "dict"
  /\ "periods" \in DOMAIN body.d.properties.d
  /\ body.d.properties.d.periods.t = "list"

\* C6: when both calls of get_forecast succeed and the forecast holds N periods, the
\* result has exactly min(N, 5) blocks: the first min(N, 5) periods in their order, each
\* with its name, temperature and unit, wind and forecast text; later periods are absent.
C6_FirstFivePeriods ==
  \A r \in Requests :
    (Done(r, "get_forecast") /\ Len(hist[r]) = 2 /\ Decoded(hist[r][2])
       /\ IsForecastDocument(hist[r][2].body)
       /\ \A i \in 1..Min(5, Len(PeriodsOf(hist[r][2]))) : IsPeriod(PeriodsOf(hist[r][2])[i]))
    => /\ result[r].t = "text"
       /\ LET ps == PeriodsOf(hist[r][2])
              blocks == Blocks(result[r])
          IN /\ Len(blocks) = Min(5, Len(ps))
             /\ Len(ps) >= 5 => Len(blocks) = 5
             /\ \A i \in 1..Len(blocks) :
                  LET shown(key) == Format(ps[i].d[key])
                  IN blocks[i] =
                       <<"\n", shown("name"), ":\nTemperature: ", shown("temperature"), DEGREE,
                         shown("temperatureUnit"), "\nWind: ", shown("windSpeed"), " ",
                         shown("windDirection"), "\nForecast: ", shown("detailedForecast"),
                         "\n">>

C6_Witness ==
  \E r \in Requests :
    /\ Done(r, "get_forecast")
    /\ Len(hist[r]) = 2
    /\ Decoded(hist[r][2])
    /\ IsForecastDocument(hist[r][2].body)
    /\ Len(PeriodsOf(hist[r][2])) = 6
    /\ \A i \in 1..6 : IsPeriod(PeriodsOf(hist[r][2])[i])
    /\ PeriodsOf(hist[r][2])[6] # PeriodsOf(hist[r][2])[5]
    /\ result[r].t = "text"
    /\ Len(Blocks(result[r])) = 5

InCall(r) == pc[r] \in {"mk_enter", "mk_get", "mk_await", "mk_exit"}

\* C8: no retry. A get_alerts invocation sends exactly one GET, a get_forecast invocation
\* at most two, one after the other: the second only after the grid-point response was
\* received, to the URL taken from it. A failed call is never sent again.
C8_NoRetry ==
  \A r \in Requests :
    /\ Len(gets[r]) <= call[r]
    /\ Len(gets[r]) <= Len(hist[r]) + 1
    /\ op[r] \in {"none", "get_greeting", "translation_ja"} => gets[r] = <<>>
    /\ op[r] = "get_alerts"
         => /\ Len(gets[r]) <= 1
            /\ pc[r] \in {"mk_await", "mk_exit", "body", "done"} => Len(gets[r]) = 1
    /\ op[r] = "get_forecast" => Len(gets[r]) <= 2
    /\ Len(gets[r]) = 2
         => /\ Decoded(hist[r][1])
            /\ gets[r][2].url = hist[r][1].body.d.properties.d.forecast
            /\ gets[r][1].url # gets[r][2].url

C8_Witness ==
  \E r \in Requests :
    /\ Done(r, "get_forecast")
    /\ Len(gets[r]) = 2
    /\ hist[r][2] = Timeout
    /\ result[r] = Text(<<UNABLE_FORECAST>>)

RECURSIVE SumUpTo(_, _)
SumUpTo(f, n) == IF n = 0 THEN 0 ELSE f[n] + SumUpTo(f, n - 1)
OpenClients == SumUpTo(clients, MaxRequests)

\* C9: each make_nws_request call opens its own client and has closed it when it returns,
\* whatever the exit path; so the open clients never outnumber the calls in flight, and
\* none is open when no handler is running.
C9_ClientsClosed ==
  /\ \A r \in Requests : clients[r] = (IF pc[r] \in {"mk_get", "mk_await", "mk_exit"} THEN 1 ELSE 0)
  /\ OpenClients <= Cardinality({r \in Requests : InCall(r)})
  /\ (\A r \in Requests : pc[r] \in {"idle", "done"}) => OpenClients = 0

C9_Witness ==
  \E r \in Requests : \E q \in Requests \ {r} :
    /\ pc[r] = "body"
    /\ hist[r] = <<Response(200, Undecodable)>>
    /\ clients[r] = 0
    /\ pc[q] = "mk_await"
    /\ clients[q] = 1

\* the result of one invocation run alone with the same arguments and the same
\* outcomes of its own GETs
Solo(name, a, outcomes) ==
  CASE name = "get_greeting" -> get_greeting(a.s)
    [] name = "translation_ja" -> translation_ja(a.s)
    [] name = "get_alerts" -> get_alerts_body(make_nws_result(outcomes[1]))
    [] name = "get_forecast" ->
         LET points_data == make_nws_result(outcomes[1]) IN
         IF ~Truthy(points_data) THEN Text(<<UNABLE_POINTS>>)
         ELSE IF IsExc(forecast_url_of(points_data)) THEN forecast_url_of(points_data)
         ELSE IF ~Sendable(forecast_url_of(points_data)) THEN get_forecast_body(None)
         ELSE get_forecast_body(make_nws_result(outcomes[2]))

\* C10: handlers share no mutable state. In every interleaving each invocation's result
\* is the one it produces when run alone on its own arguments and the responses to its
\* own calls, and the values read at startup are never modified.
C10_Isolation ==
  /\ globals = Startup(environ)
  /\ \A r \in Requests : pc[r] = "done" => result[r] = Solo(op[r], arg[r], hist[r])

C10_Witness ==
  \E r \in Requests : \E q \in Requests \ {r} :
    /\ Done(r, "get_alerts")
    /\ Done(q, "get_forecast")
    /\ hist[r] = <<Response(200, AlertsDocument(List(<<FullFeature>>)))>>
    /\ Len(hist[q]) = 2
    /\ hist[q][2] = Timeout
    /\ result[r].t = "text"
    /\ result[q] = Text(<<UNABLE_FORECAST>>)

====
